---- MODULE Spec2Model ----
(***************************************************************************)
(* Supplier Management System (src/app.py): the audit-log replication      *)
(* engine.  Two SQLite databases (MAIN_DB, BACKUP_DB), triggers that       *)
(* capture every insert into products / purchase_order_items in an audit   *)
(* table, and the routines replicate_product_to_backup /                   *)
(* replicate_order_item_to_backup that copy audit rows to the backup       *)
(* database and mark them in a ledger table of the main database.          *)
(*                                                                         *)
(* Every request handler runs in a worker with its own connections.  A     *)
(* connection opened by sqlite3.connect() starts a transaction implicitly  *)
(* before its first INSERT/DELETE, which takes the database's write lock   *)
(* (one writer per database file) and keeps it until commit; what it       *)
(* writes is invisible to the other connections until then, and is rolled  *)
(* back when the connection goes away without a commit.  A SELECT outside  *)
(* a transaction reads the committed state.                                *)
(*                                                                         *)
(* Rows are abstracted to the fields the engine depends on: the row id,    *)
(* the order a line item belongs to, and one value field (unit_price of a  *)
(* product, quantity of a line item).  A backup row carries the audit_id   *)
(* it was copied from as a history field (src); the table itself has no    *)
(* such column.  The main database carries the audit rows ever committed   *)
(* to it as a history field (issued), which no statement reads.            *)
(***************************************************************************)
EXTENDS Integers, Sequences, FiniteSets, TLC

\* ------------------------------------------------------------------ bounds
\* requests served at the same time; rows inserted by add_product and add_item
\* (in a run without, and beside, a seed_demo); seed_demo requests; suppliers
\* and orders added by hand; audit rows pending when the passes of SpecRace
\* start
NumWorkers == 2
MaxInserts == 2
MaxSeedInserts == 1
MaxSeeds == 1
MaxSuppliers == 1
MaxOrders == 1
MaxPending == 2

\* ------------------------------------------------------- program constants
SeedProducts == 5
SeedItems == 3

Workers == 1..NumWorkers
Kinds == {"product", "item"}
Prices == {-1, 1}
Quantities == {0, 1}
Emails == {"alpha"}
DemoEmails == {"alpha", "southern", "kico"}

\* main, backup: the committed state of MAIN_DB and BACKUP_DB
\* op, pc, arg:   the handler a worker runs, its next statement, its form input
\* kind, calls:   the replication routine it is in, and those it will call next
\* rows:          the rows it has selected and not yet copied
\* tx, btx:       the open transaction of its connection to each database
\* history:       ghost (what a pass saw when it read the pending set),
\*                midfail (rows at which a pass was interrupted between its
\*                two inserts), settled (a pass of the kind has completed
\*                with no insert since its read), seeds (completed seedings)
VARIABLES main, backup, op, pc, kind, calls, rows, arg, tx, btx, ghost, midfail, settled, seeds

vars == <<main, backup, op, pc, kind, calls, rows, arg, tx, btx, ghost, midfail, settled, seeds>>

\* ------------------------------------------------------------- the stores
EmptyMain ==
  [suppliers |-> {}, orders |-> {},
   entities |-> [k \in Kinds |-> {}],
   audit |-> [k \in Kinds |-> {}],
   audit_seq |-> [k \in Kinds |-> 0],
   issued |-> [k \in Kinds |-> {}],
   ledger |-> [k \in Kinds |-> {}]]

EmptyBackup == [k \in Kinds |-> <<>>]

NoTx == [open |-> FALSE, db |-> EmptyMain]
NoBtx == [open |-> FALSE, db |-> EmptyBackup]

MaxOf(S) == IF S = {} THEN 0 ELSE CHOOSE m \in S : \A x \in S : x <= m

\* rowid of a new row of a table without AUTOINCREMENT: largest rowid + 1
NextRowid(ids) == MaxOf(ids) + 1

\* what connection w sees of the main database: its own open transaction, or
\* the committed state
db_conn(w) == IF tx[w].open THEN tx[w].db ELSE main

backup_conn(w) == IF btx[w].open THEN btx[w].db ELSE backup

\* the write lock of a database file is held by the connection with an open
\* write transaction
MainLocked(w) == \E v \in Workers \ {w} : tx[v].open
BackupLocked(w) == \E v \in Workers \ {w} : btx[v].open

\* ------------------------------------------------------------ the schema
CheckProduct(price) == price >= 0
CheckItem(qty) == qty > 0

\* a row of an audit table: the snapshot of the inserted row
AuditRow(id, e) == [audit_id |-> id, eid |-> e.id, order |-> e.order, val |-> e.val]

\* trg_products_audit / trg_order_items_audit: AFTER INSERT, in the statement;
\* audit_id is AUTOINCREMENT: one more than the largest ever given (audit_seq,
\* the table's row of sqlite_sequence)
NoTriggerAudit(db, k, e) == db

RowidAudit(db, k, e) ==
  LET id == NextRowid({a.audit_id : a \in db.audit[k]})
  IN [db EXCEPT !.audit[k] = @ \cup {AuditRow(id, e)},
                !.issued[k] = @ \cup {AuditRow(id, e)},
                !.audit_seq[k] = id]

TriggerAudit(db, k, e) ==
  LET id == db.audit_seq[k] + 1
  IN [db EXCEPT !.audit[k] = @ \cup {AuditRow(id, e)},
                !.issued[k] = @ \cup {AuditRow(id, e)},
                !.audit_seq[k] = id]

InsertEntity(db, k, order, val) ==
  LET e == [id |-> NextRowid({x.id : x \in db.entities[k]}), order |-> order, val |-> val]
  IN TriggerAudit([db EXCEPT !.entities[k] = @ \cup {e}], k, e)

\* products_backup_ids / order_items_backup_ids: audit_id INTEGER PRIMARY KEY
NoPrimaryKey(ledger, id) == FALSE

PrimaryKeyViolated(ledger, id) == id \in ledger

\* SELECT * FROM <kind>_audit WHERE audit_id NOT IN (SELECT audit_id FROM <kind>_backup_ids)
AllAudit(db, k) == db.audit[k]

Pending(db, k) == {a \in db.audit[k] : a.audit_id \notin db.ledger[k]}

RECURSIVE ById(_)
ById(S) ==
  IF S = {} THEN <<>>
  ELSE LET a == CHOOSE x \in S : \A y \in S : x.audit_id <= y.audit_id
       IN <<a>> \o ById(S \ {a})

\* the row a pass inserts into the backup table: the fields of the audit row
SwappedBackupRow(a) == [src |-> a.audit_id, eid |-> a.eid, order |-> a.val, val |-> a.order]

BackupRow(a) == [src |-> a.audit_id, eid |-> a.eid, order |-> a.order, val |-> a.val]

\* the committed backup table after an INSERT statement of an open transaction
AutocommitInsert(committed, work) == work

AfterInsertStatement(committed, work) == committed

Copies(k, id) == Cardinality({i \in DOMAIN backup[k] : backup[k][i].src = id})

\* ------------------------------------------------------------- the state
NoArg == [order |-> 0, val |-> 0]

NoGhost == [seen |-> {}, read |-> {}, retry |-> {}, mark |-> 0, quiet |-> FALSE]

Init ==
  /\ main = EmptyMain
  /\ backup = EmptyBackup
  /\ op = [w \in Workers |-> "idle"]
  /\ pc = [w \in Workers |-> "idle"]
  /\ kind = [w \in Workers |-> "product"]
  /\ calls = [w \in Workers |-> <<>>]
  /\ rows = [w \in Workers |-> <<>>]
  /\ arg = [w \in Workers |-> NoArg]
  /\ tx = [w \in Workers |-> NoTx]
  /\ btx = [w \in Workers |-> NoBtx]
  /\ ghost = [w \in Workers |-> NoGhost]
  /\ midfail = [k \in Kinds |-> {}]
  /\ settled = [k \in Kinds |-> FALSE]
  /\ seeds = 0

\* ----------------------------------------------------- the end of a handler
\* the handler returns: its connections are closed
Return(w) ==
  /\ op' = [op EXCEPT ![w] = "idle"]
  /\ pc' = [pc EXCEPT ![w] = "idle"]
  /\ calls' = [calls EXCEPT ![w] = <<>>]
  /\ rows' = [rows EXCEPT ![w] = <<>>]
  /\ arg' = [arg EXCEPT ![w] = NoArg]
  /\ tx' = [tx EXCEPT ![w] = NoTx]
  /\ btx' = [btx EXCEPT ![w] = NoBtx]
  /\ ghost' = [ghost EXCEPT ![w] = NoGhost]
  /\ kind' = [kind EXCEPT ![w] = "product"]

\* an exception leaves the handler (no handler catches any): the connections
\* go away without a commit, their open transactions are rolled back
Abort(w) ==
  /\ Return(w)
  /\ UNCHANGED <<main, backup, settled, seeds>>

InPass(v) == pc[v] \in {"select", "backup_insert", "ledger_insert", "conn_commit", "bconn_commit", "close"}

\* the handler calls the replication routines ks, one after the other
Invoke(w, ks) ==
  /\ kind' = [kind EXCEPT ![w] = Head(ks)]
  /\ calls' = [calls EXCEPT ![w] = Tail(ks)]
  /\ pc' = [pc EXCEPT ![w] = "select"]

\* ------------------------------------------------ the replication routines
\* rows = conn.execute(SELECT ...).fetchall()
ReplicateSelect(w) ==
  /\ pc[w] = "select"
  /\ LET k == kind[w]
         sel == ById(Pending(main, k))
     IN /\ rows' = [rows EXCEPT ![w] = sel]
        /\ pc' = [pc EXCEPT ![w] = IF sel = <<>> THEN "conn_commit" ELSE "backup_insert"]
        /\ ghost' = [ghost EXCEPT ![w] =
                       [seen |-> {a.audit_id : a \in main.audit[k]},
                        read |-> {sel[i].audit_id : i \in DOMAIN sel},
                        retry |-> {sel[i].audit_id : i \in DOMAIN sel} \cap midfail[k],
                        mark |-> main.audit_seq[k],
                        quiet |-> settled[k]]]
  /\ UNCHANGED <<main, backup, op, kind, calls, arg, tx, btx, midfail, settled, seeds>>

\* bconn.execute(INSERT INTO <kind>_backup ...)
ReplicateBackupInsert(w) ==
  /\ pc[w] = "backup_insert"
  /\ ~BackupLocked(w)
  /\ LET work == [backup_conn(w) EXCEPT ![kind[w]] = Append(@, BackupRow(Head(rows[w])))]
     IN /\ btx' = [btx EXCEPT ![w] = [open |-> TRUE, db |-> work]]
        /\ backup' = AfterInsertStatement(backup, work)
  /\ pc' = [pc EXCEPT ![w] = "ledger_insert"]
  /\ UNCHANGED <<main, op, kind, calls, rows, arg, tx, ghost, midfail, settled, seeds>>

\* conn.execute(INSERT INTO <kind>_backup_ids(audit_id) ...): in the
\* transaction the connection opens before its first INSERT
LedgerInsertAutocommit(w) ==
  /\ pc[w] = "ledger_insert"
  /\ ~MainLocked(w)
  /\ LET k == kind[w]
         id == Head(rows[w]).audit_id
     IN IF PrimaryKeyViolated(main.ledger[k], id)
        THEN Abort(w) /\ UNCHANGED midfail
        ELSE /\ main' = [main EXCEPT !.ledger[k] = @ \cup {id}]
             /\ rows' = [rows EXCEPT ![w] = Tail(@)]
             /\ pc' = [pc EXCEPT ![w] = IF Tail(rows[w]) = <<>> THEN "conn_commit" ELSE "backup_insert"]
             /\ UNCHANGED <<backup, op, kind, calls, arg, tx, btx, ghost, midfail, settled, seeds>>

ReplicateLedgerInsert(w) ==
  /\ pc[w] = "ledger_insert"
  /\ ~MainLocked(w)
  /\ LET k == kind[w]
         id == Head(rows[w]).audit_id
         db == db_conn(w)
     IN IF PrimaryKeyViolated(db.ledger[k], id)
        THEN Abort(w) /\ UNCHANGED midfail
        ELSE /\ tx' = [tx EXCEPT ![w] = [open |-> TRUE, db |-> [db EXCEPT !.ledger[k] = @ \cup {id}]]]
             /\ rows' = [rows EXCEPT ![w] = Tail(@)]
             /\ pc' = [pc EXCEPT ![w] = IF Tail(rows[w]) = <<>> THEN "conn_commit" ELSE "backup_insert"]
             /\ UNCHANGED <<main, backup, op, kind, calls, arg, btx, ghost, midfail, settled, seeds>>

\* conn.commit()
DeferredConnCommit(w) ==
  /\ pc[w] = "conn_commit"
  /\ pc' = [pc EXCEPT ![w] = "bconn_commit"]
  /\ UNCHANGED <<main, backup, op, kind, calls, rows, arg, tx, btx, ghost, midfail, settled, seeds>>

CommitBackupFirst(w) ==
  /\ pc[w] = "conn_commit"
  /\ backup' = backup_conn(w)
  /\ btx' = [btx EXCEPT ![w] = NoBtx]
  /\ pc' = [pc EXCEPT ![w] = "bconn_commit"]
  /\ UNCHANGED <<main, op, kind, calls, rows, arg, tx, ghost, midfail, settled, seeds>>

ReplicateConnCommit(w) ==
  /\ pc[w] = "conn_commit"
  /\ main' = db_conn(w)
  /\ tx' = [tx EXCEPT ![w] = NoTx]
  /\ pc' = [pc EXCEPT ![w] = "bconn_commit"]
  /\ UNCHANGED <<backup, op, kind, calls, rows, arg, btx, ghost, midfail, settled, seeds>>

\* bconn.commit()
ReplicateBconnCommit(w) ==
  /\ pc[w] = "bconn_commit"
  /\ backup' = backup_conn(w)
  /\ btx' = [btx EXCEPT ![w] = NoBtx]
  /\ pc' = [pc EXCEPT ![w] = "close"]
  /\ UNCHANGED <<main, op, kind, calls, rows, arg, tx, ghost, midfail, settled, seeds>>

\* conn.close(); bconn.close(); the routine returns to the handler, which
\* calls the next routine or returns
ReplicateClose(w) ==
  /\ pc[w] = "close"
  /\ settled' = [settled EXCEPT ![kind[w]] = @ \/ ghost[w].mark = main.audit_seq[kind[w]]]
  /\ IF calls[w] = <<>>
     THEN Return(w)
     ELSE /\ Invoke(w, calls[w])
          /\ rows' = [rows EXCEPT ![w] = <<>>]
          /\ ghost' = [ghost EXCEPT ![w] = NoGhost]
          /\ UNCHANGED <<op, arg, tx, btx>>
  /\ UNCHANGED <<main, backup, midfail, seeds>>

\* what a call of a routine evaluates to once it has closed its connections:
\* the body ends without a return statement
None == "None"

ReplicateReturn(w) == None

ReplicateStep(w) ==
  \/ ReplicateSelect(w)
  \/ ReplicateBackupInsert(w)
  \/ ReplicateLedgerInsert(w)
  \/ ReplicateConnCommit(w)
  \/ ReplicateBconnCommit(w)
  \/ ReplicateClose(w)

replicate_product_to_backup(w) == kind[w] = "product" /\ ReplicateStep(w)

replicate_order_item_to_backup(w) == kind[w] = "item" /\ ReplicateStep(w)

\* ------------------------------------------------------------ the handlers
\* the requests of a handler that have not yet committed their insert
InFlight(h) == Cardinality({v \in Workers : op[v] = h /\ pc[v] \notin {"idle"} /\ ~InPass(v)})

\* the bound on the rows that add_product and add_item insert: MaxInserts, or
\* MaxSeedInserts beside those of each seed_demo
Inserting ==
  main.audit_seq["product"] + main.audit_seq["item"] + InFlight("add_product") + InFlight("add_item")

InsertBudget ==
  Inserting < (IF seeds > 0 \/ InFlight("seed_demo") > 0
               THEN MaxSeedInserts + (SeedProducts + SeedItems) * seeds
               ELSE MaxInserts)

\* GET /
dashboard(w) ==
  /\ op[w] = "idle"
  /\ op' = [op EXCEPT ![w] = "dashboard"]
  /\ Invoke(w, <<"product", "item">>)
  /\ UNCHANGED <<main, backup, rows, arg, tx, btx, ghost, midfail, settled, seeds>>

\* POST /add_product: the form is read, then INSERT INTO products
add_product_request(w) ==
  /\ op[w] = "idle"
  /\ InsertBudget
  /\ \E price \in Prices : arg' = [arg EXCEPT ![w] = [order |-> 0, val |-> price]]
  /\ op' = [op EXCEPT ![w] = "add_product"]
  /\ pc' = [pc EXCEPT ![w] = "insert"]
  /\ UNCHANGED <<main, backup, kind, calls, rows, tx, btx, ghost, midfail, settled, seeds>>

add_product_insert(w) ==
  /\ op[w] = "add_product"
  /\ pc[w] = "insert"
  /\ ~MainLocked(w)
  /\ IF CheckProduct(arg[w].val)
     THEN /\ tx' = [tx EXCEPT ![w] = [open |-> TRUE, db |-> InsertEntity(main, "product", 0, arg[w].val)]]
          /\ pc' = [pc EXCEPT ![w] = "commit"]
          /\ UNCHANGED <<main, backup, op, kind, calls, rows, arg, btx, ghost, midfail, settled, seeds>>
     ELSE Abort(w) /\ UNCHANGED midfail

add_product_commit(w) ==
  /\ op[w] = "add_product"
  /\ pc[w] = "commit"
  /\ main' = tx[w].db
  /\ tx' = [tx EXCEPT ![w] = NoTx]
  /\ settled' = [settled EXCEPT !["product"] = FALSE]
  /\ Invoke(w, <<"product">>)
  /\ UNCHANGED <<backup, op, rows, arg, btx, ghost, midfail, seeds>>

add_product(w) ==
  \/ add_product_request(w)
  \/ add_product_insert(w)
  \/ add_product_commit(w)

\* POST /add_item/<oid>: INSERT INTO purchase_order_items
add_item_request(w) ==
  /\ op[w] = "idle"
  /\ InsertBudget
  /\ \E oid \in 1..(MaxOrders + 1), qty \in Quantities :
        arg' = [arg EXCEPT ![w] = [order |-> oid, val |-> qty]]
  /\ op' = [op EXCEPT ![w] = "add_item"]
  /\ pc' = [pc EXCEPT ![w] = "insert"]
  /\ UNCHANGED <<main, backup, kind, calls, rows, tx, btx, ghost, midfail, settled, seeds>>

add_item_insert(w) ==
  /\ op[w] = "add_item"
  /\ pc[w] = "insert"
  /\ ~MainLocked(w)
  /\ IF CheckItem(arg[w].val) /\ arg[w].order \in main.orders
     THEN /\ tx' = [tx EXCEPT ![w] = [open |-> TRUE, db |-> InsertEntity(main, "item", arg[w].order, arg[w].val)]]
          /\ pc' = [pc EXCEPT ![w] = "commit"]
          /\ UNCHANGED <<main, backup, op, kind, calls, rows, arg, btx, ghost, midfail, settled, seeds>>
     ELSE Abort(w) /\ UNCHANGED midfail

add_item_commit(w) ==
  /\ op[w] = "add_item"
  /\ pc[w] = "commit"
  /\ main' = tx[w].db
  /\ tx' = [tx EXCEPT ![w] = NoTx]
  /\ settled' = [settled EXCEPT !["item"] = FALSE]
  /\ Invoke(w, <<"item">>)
  /\ UNCHANGED <<backup, op, rows, arg, btx, ghost, midfail, seeds>>

add_item(w) ==
  \/ add_item_request(w)
  \/ add_item_insert(w)
  \/ add_item_commit(w)

\* POST /add_supplier: INSERT INTO suppliers and commit (email is UNIQUE)
add_supplier ==
  /\ \A w \in Workers : ~tx[w].open
  /\ Cardinality(main.suppliers) < MaxSuppliers
  /\ \E email \in Emails :
        /\ email = "none" \/ email \notin {s.email : s \in main.suppliers}
        /\ main' = [main EXCEPT !.suppliers =
                       @ \cup {[id |-> NextRowid({s.id : s \in main.suppliers}), email |-> email]}]
  /\ UNCHANGED <<backup, op, pc, kind, calls, rows, arg, tx, btx, ghost, midfail, settled, seeds>>

\* POST /add_order: INSERT INTO purchase_orders and commit (supplier_id is a
\* foreign key)
add_order ==
  /\ \A w \in Workers : ~tx[w].open
  /\ Cardinality(main.orders) < MaxOrders
  /\ \E s \in main.suppliers :
        main' = [main EXCEPT !.orders = @ \cup {NextRowid(main.orders)}]
  /\ UNCHANGED <<backup, op, pc, kind, calls, rows, arg, tx, btx, ghost, midfail, settled, seeds>>

\* GET /backup: the two SELECTs on the backup database, the connection closed,
\* the page rendered
backup_viewer_request(w) ==
  /\ op[w] = "idle"
  /\ op' = [op EXCEPT ![w] = "backup_viewer"]
  /\ pc' = [pc EXCEPT ![w] = "view"]
  /\ UNCHANGED <<main, backup, kind, calls, rows, arg, tx, btx, ghost, midfail, settled, seeds>>

backup_viewer_render(w) ==
  /\ op[w] = "backup_viewer"
  /\ pc[w] = "view"
  /\ Return(w)
  /\ UNCHANGED <<main, backup, midfail, settled, seeds>>

backup_viewer(w) ==
  \/ backup_viewer_request(w)
  \/ backup_viewer_render(w)

\* ------------------------------------------------------------- seed_demo
RECURSIVE InsertMany(_, _, _, _)
InsertMany(db, k, order, n) ==
  IF n = 0 THEN db
  ELSE InsertEntity(InsertMany(db, k, order, n - 1), k, order, n)

RECURSIVE InsertSuppliers(_, _)
InsertSuppliers(S, emails) ==
  IF emails = <<>> THEN S
  ELSE InsertSuppliers(S \cup {[id |-> NextRowid({s.id : s \in S}), email |-> Head(emails)]},
                       Tail(emails))

\* the eight DELETE statements: the source tables, the audit tables, the
\* ledger tables
WipedSourceOnly(db) ==
  [db EXCEPT !.entities = [k \in Kinds |-> {}],
             !.orders = {},
             !.suppliers = {}]

Wiped(db) ==
  [db EXCEPT !.entities = [k \in Kinds |-> {}],
             !.orders = {},
             !.suppliers = {},
             !.audit = [k \in Kinds |-> {}],
             !.ledger = [k \in Kinds |-> {}]]

Seeded(db) ==
  LET d1 == [db EXCEPT !.suppliers = InsertSuppliers(@, <<"alpha", "southern", "kico">>)]
      d2 == InsertMany(d1, "product", 0, SeedProducts)
      order_id == NextRowid(d2.orders)
      d3 == [d2 EXCEPT !.orders = @ \cup {order_id}]
  IN InsertMany(d3, "item", order_id, SeedItems)

\* suppliers.email is UNIQUE; purchase_orders.supplier_id (1) is a foreign key
SeedAccepted(db) ==
  /\ {s.email : s \in db.suppliers} \cap DemoEmails = {}
  /\ 1 \in {s.id : s \in InsertSuppliers(db.suppliers, <<"alpha", "southern", "kico">>)}

seed_demo_request(w) ==
  /\ op[w] = "idle"
  /\ seeds + InFlight("seed_demo") < MaxSeeds
  /\ Inserting <= MaxSeedInserts
  /\ op' = [op EXCEPT ![w] = "seed_demo"]
  /\ pc' = [pc EXCEPT ![w] = "wipe"]
  /\ UNCHANGED <<main, backup, kind, calls, rows, arg, tx, btx, ghost, midfail, settled, seeds>>

\* the eight DELETE statements
seed_demo_wipe(w) ==
  /\ pc[w] = "wipe"
  /\ ~MainLocked(w)
  /\ tx' = [tx EXCEPT ![w] = [open |-> TRUE, db |-> Wiped(main)]]
  /\ pc' = [pc EXCEPT ![w] = "wipe_commit"]
  /\ UNCHANGED <<main, backup, op, kind, calls, rows, arg, btx, ghost, midfail, settled, seeds>>

seed_demo_wipe_backup_too(w) ==
  /\ pc[w] = "wipe_commit"
  /\ main' = tx[w].db
  /\ backup' = EmptyBackup
  /\ tx' = [tx EXCEPT ![w] = NoTx]
  /\ pc' = [pc EXCEPT ![w] = "seed_insert"]
  /\ UNCHANGED <<op, kind, calls, rows, arg, btx, ghost, midfail, settled, seeds>>

seed_demo_wipe_commit(w) ==
  /\ pc[w] = "wipe_commit"
  /\ main' = tx[w].db
  /\ tx' = [tx EXCEPT ![w] = NoTx]
  /\ pc' = [pc EXCEPT ![w] = "seed_insert"]
  /\ UNCHANGED <<backup, op, kind, calls, rows, arg, btx, ghost, midfail, settled, seeds>>

\* the suppliers, the products, the order and its items
seed_demo_insert(w) ==
  /\ pc[w] = "seed_insert"
  /\ ~MainLocked(w)
  /\ IF SeedAccepted(main)
     THEN /\ tx' = [tx EXCEPT ![w] = [open |-> TRUE, db |-> Seeded(main)]]
          /\ pc' = [pc EXCEPT ![w] = "seed_commit"]
          /\ UNCHANGED <<main, backup, op, kind, calls, rows, arg, btx, ghost, midfail, settled, seeds>>
     ELSE Abort(w) /\ UNCHANGED midfail

seed_demo_commit(w) ==
  /\ pc[w] = "seed_commit"
  /\ main' = tx[w].db
  /\ tx' = [tx EXCEPT ![w] = NoTx]
  /\ settled' = [k \in Kinds |-> FALSE]
  /\ seeds' = seeds + 1
  /\ Invoke(w, <<"product", "item">>)
  /\ UNCHANGED <<backup, op, rows, arg, btx, ghost, midfail>>

seed_demo(w) ==
  \/ seed_demo_request(w)
  \/ seed_demo_wipe(w)
  \/ seed_demo_wipe_commit(w)
  \/ seed_demo_insert(w)
  \/ seed_demo_commit(w)

\* ------------------------------------------------------------- failures
\* sqlite3.OperationalError "database is locked": the write lock the next
\* statement needs stays with another connection for the whole busy timeout
Busy(w) ==
  /\ IF pc[w] = "backup_insert"
     THEN BackupLocked(w)
     ELSE pc[w] \in {"ledger_insert", "insert", "wipe", "seed_insert"} /\ MainLocked(w)
  /\ Abort(w)
  /\ UNCHANGED midfail

\* any other error of a statement or a commit, or the death of the process
\* that runs the handler: what was not committed is rolled back
Crash(w) ==
  /\ pc[w] # "idle"
  /\ Abort(w)
  /\ UNCHANGED midfail

\* the same, after the backup insert of a row and before its ledger insert,
\* with the row noted in the history variable midfail
CrashMidPass(w) ==
  /\ pc[w] = "ledger_insert"
  /\ Abort(w)
  /\ midfail' = [midfail EXCEPT ![kind[w]] = @ \cup {Head(rows[w]).audit_id}]

\* --------------------------------------------------------- specifications
Next ==
  \/ \E w \in Workers : dashboard(w)
  \/ \E w \in Workers : replicate_product_to_backup(w)
  \/ \E w \in Workers : replicate_order_item_to_backup(w)
  \/ \E w \in Workers : add_product(w)
  \/ \E w \in Workers : add_item(w)
  \/ add_supplier
  \/ add_order
  \/ \E w \in Workers : seed_demo(w)
  \/ \E w \in Workers : backup_viewer(w)
  \/ \E w \in Workers : Busy(w)
  \/ \E w \in Workers : Crash(w)

Spec == Init /\ [][Next]_vars

\* the application without seed_demo, a crash between the two inserts of a
\* row noted in midfail
NextNoSeed ==
  \/ \E w \in Workers : dashboard(w)
  \/ \E w \in Workers : replicate_product_to_backup(w)
  \/ \E w \in Workers : replicate_order_item_to_backup(w)
  \/ \E w \in Workers : add_product(w)
  \/ \E w \in Workers : add_item(w)
  \/ add_supplier
  \/ add_order
  \/ \E w \in Workers : Busy(w)
  \/ \E w \in Workers : Crash(w)
  \/ \E w \in Workers : CrashMidPass(w)

SpecNoSeed == Init /\ [][NextNoSeed]_vars

\* the application when no statement fails but on a lock or a constraint, and
\* no process dies
NextNoCrash ==
  \/ \E w \in Workers : dashboard(w)
  \/ \E w \in Workers : replicate_product_to_backup(w)
  \/ \E w \in Workers : replicate_order_item_to_backup(w)
  \/ \E w \in Workers : add_product(w)
  \/ \E w \in Workers : add_item(w)
  \/ add_supplier
  \/ add_order
  \/ \E w \in Workers : seed_demo(w)
  \/ \E w \in Workers : Busy(w)

SpecNoCrash == Init /\ [][NextNoCrash]_vars

\* one request at a time: a single worker serves all of them
NextSolo ==
  \/ \E w \in {1} : dashboard(w)
  \/ \E w \in {1} : replicate_product_to_backup(w)
  \/ \E w \in {1} : replicate_order_item_to_backup(w)
  \/ \E w \in {1} : add_product(w)
  \/ \E w \in {1} : add_item(w)
  \/ add_supplier
  \/ add_order
  \/ \E w \in {1} : seed_demo(w)
  \/ \E w \in {1} : Crash(w)

SpecSolo == Init /\ [][NextSolo]_vars

\* N dashboard requests that have just been received, against M pending audit
\* rows of one kind (their earlier passes were interrupted); no other request
RaceMain(k, m) ==
  InsertMany([EmptyMain EXCEPT !.suppliers = {[id |-> 1, email |-> "alpha"]}, !.orders = {1}],
             k, IF k = "item" THEN 1 ELSE 0, m)

InitRace ==
  /\ \E k \in Kinds, m \in 1..MaxPending : main = RaceMain(k, m)
  /\ backup = EmptyBackup
  /\ \E S \in SUBSET Workers :
        /\ S # {}
        /\ op = [w \in Workers |-> IF w \in S THEN "dashboard" ELSE "idle"]
        /\ pc = [w \in Workers |-> IF w \in S THEN "select" ELSE "idle"]
        /\ calls = [w \in Workers |-> IF w \in S THEN <<"item">> ELSE <<>>]
  /\ kind = [w \in Workers |-> "product"]
  /\ rows = [w \in Workers |-> <<>>]
  /\ arg = [w \in Workers |-> NoArg]
  /\ tx = [w \in Workers |-> NoTx]
  /\ btx = [w \in Workers |-> NoBtx]
  /\ ghost = [w \in Workers |-> NoGhost]
  /\ midfail = [k \in Kinds |-> {}]
  /\ settled = [k \in Kinds |-> FALSE]
  /\ seeds = 0

NextRace ==
  \/ \E w \in Workers : replicate_product_to_backup(w)
  \/ \E w \in Workers : replicate_order_item_to_backup(w)
  \/ \E w \in Workers : Busy(w)

SpecRace == InitRace /\ [][NextRace]_vars

\* ------------------------------------------------------------------ claims
AllIdle == \A w \in Workers : pc[w] = "idle"

AuditIds(k) == 1..main.audit_seq[k]

\* C1: when N passes of one kind have run concurrently against M pending audit
\* rows and all of them have finished, the backup table holds exactly one row
\* for each of the M audit rows: none twice, none missing.
ExactlyOncePerPendingRow ==
  AllIdle =>
    \A k \in Kinds :
      /\ \A a \in main.audit[k] : Copies(k, a.audit_id) = 1
      /\ Len(backup[k]) = Cardinality(main.audit[k])

RaceFinished ==
  /\ AllIdle
  /\ \E k \in Kinds : Len(backup[k]) >= 2 /\ main.ledger[k] = {1, 2}

\* C2: in every committed state, an audit_id is in the ledger of its kind
\* exactly when the backup table holds a row copied from it.
LedgerIffBackup ==
  \A k \in Kinds : \A id \in AuditIds(k) : (id \in main.ledger[k]) <=> (Copies(k, id) >= 1)

\* C3: once a pass of a kind has completed successfully with no insert since
\* it read the audit table, every audit row of the kind has a backup row,
\* whatever passes were interrupted before.
NoRowLost ==
  \A k \in Kinds : settled[k] => \A a \in main.audit[k] : Copies(k, a.audit_id) >= 1

\* C4: no audit_id of a kind ever has more than one backup row copied from it.
NoAuditRowTwice ==
  \A k \in Kinds : \A id \in AuditIds(k) : Copies(k, id) <= 1

\* C5: when a replication routine returns without error, every audit row that
\* existed when it read the pending set has a committed backup row.
PassPostcondition ==
  \A w \in Workers :
    pc[w] = "close" => \A id \in ghost[w].seen : Copies(kind[w], id) >= 1

\* C6: a pass that follows a successful pass of its kind with no insert in
\* between selects no row and opens no transaction: it adds no backup row
\* and no ledger entry.
SecondPassAddsNothing ==
  \A w \in Workers :
    ghost[w].quiet => rows[w] = <<>> /\ ~tx[w].open /\ ~btx[w].open

SecondPassDone ==
  \E w \in Workers :
    /\ ghost[w].quiet
    /\ pc[w] = "close"
    /\ Len(backup[kind[w]]) >= 1
    /\ Len(backup[kind[w]]) = Cardinality(main.ledger[kind[w]])

CaptureAtomic ==
  \A k \in Kinds :
    /\ \A e \in main.entities[k] :
         /\ Cardinality({a \in main.audit[k] : a.eid = e.id}) = 1
         /\ \A a \in main.audit[k] : a.eid = e.id => a.order = e.order /\ a.val = e.val
    /\ \A a \in main.audit[k] : \E e \in main.entities[k] : e.id = a.eid

CaptureUncommitted ==
  \E w \in Workers :
    /\ pc[w] = "commit"
    /\ tx[w].open
    /\ \E k \in Kinds :
         /\ main.entities[k] # {}
         /\ Cardinality(tx[w].db.audit[k]) = Cardinality(main.audit[k]) + 1

\* C9: when the backup write of a pass fails (the insert of a row, or the
\* commit), no row the pass read that has no backup row is in the ledger.
BackupFailureLeavesPending ==
  [][\A w \in Workers :
       (pc[w] \in {"backup_insert", "bconn_commit"} /\ pc'[w] = "idle") =>
         \A id \in ghost[w].read :
           (\A i \in DOMAIN backup' : TRUE) /\
           ((\A i \in DOMAIN backup'[kind[w]] : backup'[kind[w]][i].src # id)
              => id \notin main'.ledger[kind[w]])]_vars

\* C10: no step removes an audit_id from the ledger of a kind.
LedgerOnlyGrows ==
  [][\A k \in Kinds : main.ledger[k] \subseteq main'.ledger[k]]_vars

\* C11: within a kind, every audit row a step commits has an audit_id greater
\* than that of every audit row ever committed before, also after seed_demo
\* has deleted the audit rows; no two audit rows ever committed share an
\* audit_id; rows inserted in one batch get audit_ids in the order of their
\* insertion.
AuditIdsIncrease ==
  [][\A k \in Kinds :
       LET new == main'.audit[k] \ main.audit[k]
       IN /\ \A a \in new : \A b \in main.issued[k] : a.audit_id > b.audit_id
          /\ \A a, b \in main'.issued[k] : a.audit_id = b.audit_id => a = b
          /\ \A a, b \in new : a.eid < b.eid => a.audit_id < b.audit_id]_vars

AuditIdsAfterWipe ==
  /\ seeds > 0
  /\ \E k \in Kinds :
       /\ Cardinality(main.audit[k]) >= SeedItems
       /\ main.issued[k] \ main.audit[k] # {}

\* C12: every committed backup row carries the field values of the audit row
\* it was copied from, as they were when the trigger captured the insert of
\* the source row, also when the source row and the audit row have been
\* deleted since.
SnapshotFidelity ==
  \A k \in Kinds : \A i \in DOMAIN backup[k] :
    \E a \in main.issued[k] :
      /\ a.audit_id = backup[k][i].src
      /\ a.eid = backup[k][i].eid
      /\ a.order = backup[k][i].order
      /\ a.val = backup[k][i].val

CopiedAfterDelete ==
  \E w \in Workers : \E id \in ghost[w].read :
    /\ pc[w] = "close"
    /\ id \in main.ledger[kind[w]]
    /\ id \notin {a.audit_id : a \in main.audit[kind[w]]}
    /\ Copies(kind[w], id) >= 1

\* C13: a pass that fails while it reads the pending set has executed no
\* insert on either connection, and the step leaves both databases as they
\* were.
ReadFailureNoSideEffect ==
  [][\A w \in Workers :
       (pc[w] = "select" /\ pc'[w] = "idle") =>
         /\ ~tx[w].open
         /\ ~btx[w].open
         /\ main' = main
         /\ backup' = backup]_vars

ReadWithPending ==
  \E w \in Workers :
    /\ op[w] = "dashboard"
    /\ pc[w] = "select"
    /\ kind[w] = "item"
    /\ Pending(main, "item") # {}
    /\ Len(backup["product"]) >= 1

\* C14: every step of every handler leaves each backup row that was there in
\* its place and unchanged, and the only step that adds backup rows is the
\* commit of the backup connection by a replication routine of their kind.
BackupOnlyAppended ==
  [][\A k \in Kinds :
       /\ Len(backup[k]) <= Len(backup'[k])
       /\ \A i \in DOMAIN backup[k] : backup'[k][i] = backup[k][i]
       /\ backup'[k] # backup[k] =>
            \E w \in Workers : pc[w] = "bconn_commit" /\ kind[w] = k /\ pc'[w] = "close"]_vars

BackupViewedAfterSeed ==
  \E w \in Workers :
    /\ op[w] = "backup_viewer"
    /\ pc[w] = "view"
    /\ seeds > 0
    /\ Len(backup["product"]) > SeedProducts

\* C15: a call of the product routine returns the number of rows it has
\* replicated: 1 for the call that follows the insert of one product, 0 for
\* the call after it.
ReturnsCount ==
  \A w \in Workers :
    (pc[w] = "close" /\ kind[w] = "product" /\ Cardinality(main.issued["product"]) = 1) =>
      ReplicateReturn(w) = ToString(Cardinality(ghost[w].read))

\* C16: a step of a pass of one kind changes no audit row and no source row,
\* and leaves the ledger and the backup table of the other kind as they
\* were; and a pass never fails on a lock that a pass of the other kind
\* holds (the two run as if one after the other).
OtherKind(k) == CHOOSE j \in Kinds : j # k

PassesIndependent ==
  [][\A w \in Workers :
       (InPass(w) /\ pc'[w] # pc[w]) =>
         /\ main'.audit = main.audit
         /\ main'.entities = main.entities
         /\ main'.ledger[OtherKind(kind[w])] = main.ledger[OtherKind(kind[w])]
         /\ backup'[OtherKind(kind[w])] = backup[OtherKind(kind[w])]
         /\ (pc[w] = "backup_insert" /\ pc'[w] = "idle") =>
              ~\E v \in Workers \ {w} : InPass(v) /\ kind[v] # kind[w] /\ btx[v].open
         /\ (pc[w] = "ledger_insert" /\ pc'[w] = "idle") =>
              ~\E v \in Workers \ {w} : InPass(v) /\ kind[v] # kind[w] /\ tx[v].open]_vars

\* C17: when seed_demo has run to its end with no other request in progress,
\* from whatever state it started in: the main database holds 5 products and
\* 3 order items, 5 and 3 audit rows, each ledger holds exactly the audit_ids
\* of its audit table (nothing is pending), and the last 5 and 3 rows of the
\* backup tables are the copies of these audit rows, one each, behind the
\* rows that were there before.
SeedSize(k) == IF k = "product" THEN SeedProducts ELSE SeedItems

SeedDemoPostcondition ==
  \A w \in Workers :
    (op[w] = "seed_demo" /\ pc[w] = "close" /\ calls[w] = <<>>) =>
      \A k \in Kinds :
        LET n == SeedSize(k)
            old == Len(backup[k]) - n
        IN /\ Cardinality(main.entities[k]) = n
           /\ Cardinality(main.audit[k]) = n
           /\ Pending(main, k) = {}
           /\ main.ledger[k] = {a.audit_id : a \in main.audit[k]}
           /\ old >= 0
           /\ \A a \in main.audit[k] :
                /\ Copies(k, a.audit_id) = 1
                /\ \E i \in (old + 1)..Len(backup[k]) : backup[k][i].src = a.audit_id

SeedDemoDoneOverOldRows ==
  \E w \in Workers :
    /\ op[w] = "seed_demo"
    /\ pc[w] = "close"
    /\ calls[w] = <<>>
    /\ \E k \in Kinds : Len(backup[k]) > SeedSize(k)

\* C18: the ledger entries a pass commits are none, or one for every row of
\* the pending set it read: the only step that adds entries to a ledger is
\* the commit of a pass of the kind, and it adds exactly the audit_ids the
\* pass selected.
LedgerAllOrNothing ==
  [][\A k \in Kinds :
       LET new == main'.ledger[k] \ main.ledger[k]
       IN new # {} =>
            \E w \in Workers :
              /\ pc[w] = "conn_commit"
              /\ pc'[w] = "bconn_commit"
              /\ kind[w] = k
              /\ new = ghost[w].read]_vars

SeveralEntriesCommitted ==
  \E w \in Workers :
    /\ pc[w] = "bconn_commit"
    /\ Cardinality(ghost[w].read) >= 2
    /\ ghost[w].read \subseteq main.ledger[kind[w]]

\* a pass that has not committed shares an audit_id it selected with another
\* pass of its kind: one in progress, or one that has committed it
SharesRead(w) ==
  /\ pc[w] \in {"backup_insert", "ledger_insert", "conn_commit"}
  /\ \/ ghost[w].read \cap main.ledger[kind[w]] # {}
     \/ \E v \in Workers \ {w} :
          InPass(v) /\ kind[v] = kind[w] /\ ghost[v].read \cap ghost[w].read # {}

\* C19: of two passes of a kind that selected a common audit_id (no ledger
\* row deleted meanwhile), at most one commits; the other fails on the
\* primary key of the ledger table and commits nothing to either database.
LoserFailsOnPrimaryKey ==
  [][\A w \in Workers :
       /\ (pc[w] = "conn_commit" /\ pc'[w] = "bconn_commit") =>
            ghost[w].read \cap main.ledger[kind[w]] = {}
       /\ (SharesRead(w) /\ pc'[w] = "idle") =>
            /\ pc[w] = "ledger_insert"
            /\ PrimaryKeyViolated(db_conn(w).ledger[kind[w]], Head(rows[w]).audit_id)
            /\ main' = main
            /\ backup' = backup]_vars

\* C19 as amended: at most one of the two commits; the other fails on the
\* primary key of the ledger table, or on the write lock of a database that
\* the first holds ("database is locked"), and commits nothing.
LoserFailsOnKeyOrLock ==
  [][\A w \in Workers :
       /\ (pc[w] = "conn_commit" /\ pc'[w] = "bconn_commit") =>
            ghost[w].read \cap main.ledger[kind[w]] = {}
       /\ (SharesRead(w) /\ pc'[w] = "idle") =>
            /\ \/ /\ pc[w] = "ledger_insert"
                  /\ PrimaryKeyViolated(db_conn(w).ledger[kind[w]], Head(rows[w]).audit_id)
               \/ pc[w] = "ledger_insert" /\ MainLocked(w)
               \/ pc[w] = "backup_insert" /\ BackupLocked(w)
            /\ main' = main
            /\ backup' = backup]_vars

LoserAtLedgerInsert ==
  \E w \in Workers :
    /\ pc[w] = "ledger_insert"
    /\ btx[w].open
    /\ Head(rows[w]).audit_id \in main.ledger[kind[w]]

\* C20: as long as seed_demo has not run, every committed backup row was
\* copied from an audit_id whose ledger entry is committed, also after a pass
\* was interrupted at any of its statements.
BackupImpliesLedger ==
  \A k \in Kinds : \A i \in DOMAIN backup[k] : backup[k][i].src \in main.ledger[k]

BackupBesideLostRow ==
  \E k \in Kinds :
    /\ Len(backup[k]) >= 1
    /\ \E id \in main.ledger[k] : Copies(k, id) = 0
    /\ AllIdle

\* C21: the audit_id of an audit row that a step commits is not in the ledger
\* of its kind, before or after the step, and no pass in progress has
\* selected it: the row is pending and stays so until a pass that reads it
\* commits, also when seed_demo has emptied the audit and ledger tables and a
\* pass that read before the wipe commits its ledger entries afterwards.
FreshAuditRowPending ==
  [][\A k \in Kinds : \A a \in main'.audit[k] \ main.audit[k] :
       /\ a.audit_id \notin main.ledger[k]
       /\ a.audit_id \notin main'.ledger[k]
       /\ \A w \in Workers :
            (InPass(w) /\ kind[w] = k) => a.audit_id \notin ghost[w].read]_vars

StalePassCommitted ==
  \E w \in Workers : \E id \in ghost[w].read :
    /\ pc[w] = "bconn_commit"
    /\ seeds > 0
    /\ id \in main.ledger[kind[w]]
    /\ id \notin {a.audit_id : a \in main.audit[kind[w]]}
    /\ Pending(main, kind[w]) # {}

====
